---- MODULE Spec2Model ----
(***************************************************************************)
(* Relocate-Engine: the RigidBody component (src/src/RigidBody.cpp), the   *)
(* script-exposed FixtureDef properties it registers, and StatSystem       *)
(* (src/src/StatSystem.h).                                                 *)
(*                                                                         *)
(* A C++ float is modelled as a signed integer count of 2^-FracBits, kept  *)
(* to MantBits significant bits by round-to-nearest-even, so that a        *)
(* division followed by a multiplication is not the identity.              *)
(***************************************************************************)
EXTENDS Integers, Sequences, FiniteSets, TLC

VARIABLES worldToSpawnIn_, rb, bodies, disposeList_, engineCall, crashed,
          scale, fixtureDef, scriptCall,
          stats, movement

rbVars == <<worldToSpawnIn_, rb, bodies, disposeList_, engineCall, crashed>>
fixVars == <<fixtureDef, scriptCall>>
statVars == <<stats, movement>>
vars == <<rbVars, scale, fixVars, statVars>>

(* ------------------------------ bounds -------------------------------- *)
MaxComps == 2
MaxBodies == 3
MaxFixtures == 1
MantBits == 4
FracBits == 8

Null == 0
Worlds == {1, 2}
CompIds == 1..MaxComps
Handles == 1..MaxBodies

(* ------------------------------ floats -------------------------------- *)
Pow2(k) == 2 ^ k

RECURSIVE BitLen(_)
BitLen(n) == IF n <= 0 THEN 0 ELSE 1 + BitLen(n \div 2)

Abs(a) == IF a < 0 THEN -a ELSE a
Sgn(a) == IF a < 0 THEN -1 ELSE 1

One == Pow2(FracBits)
MinNormal == Pow2(MantBits - 1)

\* The float nearest to num/den (num >= 0, den > 0), ties to even.
FRound(num, den) ==
  LET fl   == num \div den
      q    == IF fl < Pow2(MantBits) THEN 1 ELSE Pow2(BitLen(fl) - MantBits)
      d    == den * q
      m    == num \div d
      r    == num % d
      up   == (2 * r > d) \/ (2 * r = d /\ m % 2 = 1)
  IN  (IF up THEN m + 1 ELSE m) * q

FDiv(a, b) == Sgn(a) * Sgn(b) * FRound(Abs(a) * One, Abs(b))
FMul(a, b) == Sgn(a) * Sgn(b) * FRound(Abs(a) * Abs(b), One)

\* PhysicsSystem::convertToB2: game units to physics units.
ConvertToB2(v) == <<FDiv(v[1], scale), FDiv(v[2], scale)>>

\* PhysicsSystem::scale, the fixed conversion factor.
Scales == { 2 * One, 3 * One, 10 * One, 13 * One }

(* ------------------------- physics engine ----------------------------- *)
\* b2BodyDef(): the engine's default definition, kept in defaultBodyDefinition_.
defaultBodyDefinition_ ==
  [type |-> "static", position |-> <<0, 0>>, angle |-> 0,
   linearVelocity |-> <<0, 0>>, awake |-> TRUE]

\* The definitions a caller hands to instantiate: the default one, a dynamic
\* body that starts asleep, turned and moving, and a moving kinematic one.
DynamicBodyDef ==
  [type |-> "dynamic", position |-> <<One, 2 * One>>, angle |-> One,
   linearVelocity |-> <<3 * One, 0>>, awake |-> FALSE]

KinematicBodyDef ==
  [type |-> "kinematic", position |-> <<0, 0>>, angle |-> 0,
   linearVelocity |-> <<0, One>>, awake |-> TRUE]

BodyDefs == { defaultBodyDefinition_, DynamicBodyDef, KinematicBodyDef }

\* Game-space vectors a script passes: destinations, forces, points; and the
\* pairs of a force or impulse with the point it is applied at.
GameVecs == { <<3 * One, 5 * One>>, <<-(7 * One), One>> }
ForcePoints == { <<f, p>> \in GameVecs \X GameVecs : f # p }

Comps == DOMAIN rb
Live == DOMAIN bodies
InList(h) == \E i \in 1..Len(disposeList_) : disposeList_[i] = h

\* b2World::CreateBody: the world allocates a body at a handle not in use
\* and builds it from the definition.
CreateBody(w, def, h) ==
  [x \in Live \cup {h} |->
     IF x = h
     THEN [world |-> w, type |-> def.type, position |-> def.position,
           angle |-> def.angle, linearVelocity |-> def.linearVelocity,
           awake |-> def.awake, gravityScale |-> One, fixtures |-> 0]
     ELSE bodies[x]]

\* b2Body::GetWorldPoint: the body's transform applied to a local point.
GetWorldPoint(b, p) == <<"world", bodies[b].position, bodies[b].angle, p>>

\* A null or stale body_ (or a null physics_) dereferenced: the process dies.
Crash == /\ crashed' = TRUE
         /\ UNCHANGED <<worldToSpawnIn_, rb, bodies, disposeList_, engineCall>>

(* --------------------------- RigidBody -------------------------------- *)
RegisterFunctions(world) ==
  /\ ~crashed
  /\ worldToSpawnIn_' = world
  /\ UNCHANGED <<rb, bodies, disposeList_, engineCall, crashed>>

Construct(c) ==
  /\ ~crashed
  /\ c \notin Comps
  /\ IF worldToSpawnIn_ = Null
     THEN Crash
     ELSE \E h \in Handles \ Live :
            /\ bodies' = CreateBody(worldToSpawnIn_, defaultBodyDefinition_, h)
            /\ rb' = [x \in Comps \cup {c} |->
                        IF x = c
                        THEN [physics_ |-> worldToSpawnIn_, body_ |-> h,
                              previousPosition_ |-> <<0, 0>>,
                              previousAngle_ |-> 0, isOutOfSync_ |-> TRUE]
                        ELSE rb[x]]
            /\ UNCHANGED <<worldToSpawnIn_, disposeList_, engineCall, crashed>>

Destruct(c) ==
  /\ ~crashed
  /\ c \in Comps
  /\ rb' = [x \in Comps \ {c} |-> rb[x]]
  /\ UNCHANGED <<worldToSpawnIn_, bodies, disposeList_, engineCall, crashed>>

\* Mutants of InstantiateBody: the new body is the one put on the list; the
\* old body is destroyed at once; no body is created; the new body is created
\* in the world registered last; the old body is listed and kept.
InstantiateBodyListsNew(c, def) ==
  /\ ~crashed
  /\ c \in Comps
  /\ \E h \in Handles \ Live :
       /\ disposeList_' = Append(disposeList_, h)
       /\ bodies' = CreateBody(rb[c].physics_, def, h)
       /\ rb' = [rb EXCEPT ![c].body_ = h, ![c].isOutOfSync_ = TRUE]
       /\ UNCHANGED <<worldToSpawnIn_, engineCall, crashed>>

InstantiateBodyDestroysNow(c, def) ==
  /\ ~crashed
  /\ c \in Comps
  /\ \E h \in Handles \ (Live \ {rb[c].body_}) :
       /\ bodies' = [x \in (Live \ {rb[c].body_}) \cup {h} |->
                       CreateBody(rb[c].physics_, def, h)[x]]
       /\ rb' = [rb EXCEPT ![c].body_ = h, ![c].isOutOfSync_ = TRUE]
       /\ UNCHANGED <<worldToSpawnIn_, disposeList_, engineCall, crashed>>

InstantiateBodyNoCreate(c, def) ==
  /\ ~crashed
  /\ c \in Comps
  /\ rb[c].body_ # Null
  /\ disposeList_' = Append(disposeList_, rb[c].body_)
  /\ rb' = [rb EXCEPT ![c].body_ = Null, ![c].isOutOfSync_ = TRUE]
  /\ UNCHANGED <<worldToSpawnIn_, bodies, engineCall, crashed>>

InstantiateBodyInLatestWorld(c, def) ==
  /\ ~crashed
  /\ c \in Comps
  /\ \E h \in Handles \ Live :
       /\ disposeList_' = Append(disposeList_, rb[c].body_)
       /\ bodies' = CreateBody(worldToSpawnIn_, def, h)
       /\ rb' = [rb EXCEPT ![c].body_ = h, ![c].isOutOfSync_ = TRUE]
       /\ UNCHANGED <<worldToSpawnIn_, engineCall, crashed>>

InstantiateBodyKeepsOld(c, def) ==
  /\ ~crashed
  /\ c \in Comps
  /\ \E h \in Handles \ Live :
       /\ disposeList_' = Append(disposeList_, rb[c].body_)
       /\ bodies' = CreateBody(rb[c].physics_, def, h)
       /\ rb' = [rb EXCEPT ![c].isOutOfSync_ = TRUE]
       /\ UNCHANGED <<worldToSpawnIn_, engineCall, crashed>>

InstantiateBody(c, def) ==
  /\ ~crashed
  /\ c \in Comps
  /\ \E h \in Handles \ Live :
       /\ disposeList_' = IF rb[c].body_ # Null
                          THEN Append(disposeList_, rb[c].body_)
                          ELSE disposeList_
       /\ bodies' = CreateBody(rb[c].physics_, def, h)
       /\ rb' = [rb EXCEPT ![c].body_ = h, ![c].isOutOfSync_ = TRUE]
       /\ UNCHANGED <<worldToSpawnIn_, engineCall, crashed>>

AddFixture(c, def) ==
  /\ ~crashed
  /\ c \in Comps
  /\ IF rb[c].body_ \notin Live
     THEN Crash
     ELSE /\ bodies[rb[c].body_].fixtures < MaxFixtures
          /\ bodies' = [bodies EXCEPT ![rb[c].body_].fixtures = @ + 1]
          /\ UNCHANGED <<worldToSpawnIn_, rb, disposeList_, engineCall, crashed>>

SetGravity(c, g) ==
  /\ ~crashed
  /\ c \in Comps
  /\ IF rb[c].body_ \notin Live
     THEN Crash
     ELSE /\ bodies' = [bodies EXCEPT ![rb[c].body_].gravityScale = g]
          /\ UNCHANGED <<worldToSpawnIn_, rb, disposeList_, engineCall, crashed>>

\* Mutant of WarpToVec: the velocity is left as it was.
WarpToVecKeepsVelocity(c, dest) ==
  /\ ~crashed
  /\ c \in Comps
  /\ rb[c].body_ \in Live
  /\ bodies' = [bodies EXCEPT
                  ![rb[c].body_].position = ConvertToB2(dest),
                  ![rb[c].body_].angle = bodies[rb[c].body_].angle]
  /\ UNCHANGED <<worldToSpawnIn_, rb, disposeList_, engineCall, crashed>>

WarpToVec(c, dest) ==
  /\ ~crashed
  /\ c \in Comps
  /\ IF rb[c].body_ \notin Live
     THEN Crash
     ELSE /\ bodies' = [bodies EXCEPT
                          ![rb[c].body_].position = ConvertToB2(dest),
                          ![rb[c].body_].angle = bodies[rb[c].body_].angle,
                          ![rb[c].body_].linearVelocity = <<0, 0>>]
          /\ UNCHANGED <<worldToSpawnIn_, rb, disposeList_, engineCall, crashed>>

WarpTo(c, x, y) == WarpToVec(c, <<x, y>>)

\* The engine's wake semantic: a call with wake set wakes the body, and a
\* call without leaves it as it is.
Wake(b, wake) == [bodies EXCEPT ![b].awake = @ \/ wake]

\* body_->Apply...(vec, point, wake): the call as the engine receives it.
Apply(c, fn, vec, point, wake) ==
  /\ ~crashed
  /\ c \in Comps
  /\ IF rb[c].body_ \notin Live
     THEN Crash
     ELSE /\ engineCall' = [body |-> rb[c].body_, fn |-> fn, vec |-> vec,
                            point |-> point, wake |-> wake]
          /\ bodies' = Wake(rb[c].body_, wake)
          /\ UNCHANGED <<worldToSpawnIn_, rb, disposeList_, crashed>>

ApplyForceToCentreVec(c, force) ==
  Apply(c, "ApplyForceToCenter", ConvertToB2(force), <<"centre">>, TRUE)
ApplyForceToCentre(c, i, j) == ApplyForceToCentreVec(c, <<i, j>>)

ApplyForceRelVec(c, force, relPos) ==
  Apply(c, "ApplyForce", ConvertToB2(force),
        GetWorldPoint(rb[c].body_, ConvertToB2(relPos)), TRUE)
ApplyForceRel(c, i, j, x, y) == ApplyForceRelVec(c, <<i, j>>, <<x, y>>)

ApplyForceVec(c, force, location) ==
  Apply(c, "ApplyForce", ConvertToB2(force), ConvertToB2(location), TRUE)
ApplyForce(c, i, j, x, y) == ApplyForceVec(c, <<i, j>>, <<x, y>>)

ApplyImpulseToCentreVec(c, impulse) ==
  Apply(c, "ApplyLinearImpulseToCenter", ConvertToB2(impulse), <<"centre">>, TRUE)
ApplyImpulseToCentre(c, i, j) == ApplyImpulseToCentreVec(c, <<i, j>>)

\* Mutant of ApplyImpulseRelVec: the impulse is forwarded without wake.
ApplyImpulseRelVecNoWake(c, impulse, relPos) ==
  Apply(c, "ApplyLinearImpulse", ConvertToB2(impulse),
        GetWorldPoint(rb[c].body_, ConvertToB2(relPos)), FALSE)

ApplyImpulseRelVec(c, impulse, relPos) ==
  Apply(c, "ApplyLinearImpulse", ConvertToB2(impulse),
        GetWorldPoint(rb[c].body_, ConvertToB2(relPos)), TRUE)
ApplyImpulseRel(c, i, j, x, y) == ApplyImpulseRelVec(c, <<i, j>>, <<x, y>>)

ApplyImpulseVec(c, impulse, location) ==
  Apply(c, "ApplyLinearImpulse", ConvertToB2(impulse), ConvertToB2(location), TRUE)
ApplyImpulse(c, i, j, x, y) == ApplyImpulseVec(c, <<i, j>>, <<x, y>>)

\* The external owner's flush between simulation steps: every body on the
\* deferred-destroy list is destroyed in its world, and the list is emptied.
Flush ==
  /\ ~crashed
  /\ disposeList_ # <<>>
  /\ bodies' = [h \in {x \in Live : ~InList(x)} |-> bodies[h]]
  /\ disposeList_' = <<>>
  /\ UNCHANGED <<worldToSpawnIn_, rb, engineCall, crashed>>

NoCall == [fn |-> "none"]

(* ------------------- FixtureDef script properties --------------------- *)
\* b2FixtureDef(): the engine's default fixture definition.
DefaultFixtureDef ==
  [density |-> 0, friction |-> FRound(2 * One, 10), restitution |-> 0]

Props == {"density", "friction", "restitution"}

\* Values a script writes to a property: 0, 1/4, 1 and 13/8.
ScriptValues == { 0, One \div 4, One, (13 * One) \div 8 }

\* Mutant of SetProp: the setter multiplies by the scale.
SetPropMultiplies(v) == FMul(v, scale)

\* The property's getter and setter lambdas.
GetProp(stored) == FMul(stored, scale)
SetProp(v) == FDiv(v, scale)

\* scriptCall is the script's last property access; "after" is the value of
\* the write (for a read) or the read (for a write) of the same property right
\* before it, <<>> when the access before was none such.
After(fn, prop) ==
  IF scriptCall.fn = fn /\ scriptCall.prop = prop
  THEN <<scriptCall.val>> ELSE <<>>

ReadProperty(prop) ==
  /\ scriptCall' = [fn |-> "get", prop |-> prop,
                    val |-> GetProp(fixtureDef[prop]),
                    after |-> After("set", prop)]
  /\ UNCHANGED fixtureDef

WriteProperty(prop, v) ==
  /\ fixtureDef' = [fixtureDef EXCEPT ![prop] = SetProp(v)]
  /\ scriptCall' = [fn |-> "set", prop |-> prop, val |-> v,
                    after |-> After("get", prop)]

\* A script writes back the value it has just read: fd.x = fd.x
WriteBack(prop) ==
  /\ scriptCall.fn = "get"
  /\ scriptCall.prop = prop
  /\ WriteProperty(prop, scriptCall.val)

(* ---------------------------- StatSystem ------------------------------ *)
MaxEntities == 2
MaxStat == 2
Entities == 1..MaxEntities
StatValues == 1..MaxStat
None == <<>>

Has(component, e) == component[e] # None

\* StatSystem::writeMovementStats: the move speed stat goes to the movement
\* component; the movement's other fields stay.
WriteMovementStats(s, m) == [m EXCEPT !.movementSpeed = s.movementSpeed]

\* Mutant of Update: an entity with a Stats and no Movement is given one.
UpdateAssignsMovement ==
  /\ movement' = [e \in Entities |->
                    IF Has(stats, e)
                    THEN <<[movementSpeed |-> stats[e][1].movementSpeed,
                            facing |-> IF Has(movement, e)
                                       THEN movement[e][1].facing ELSE "left"]>>
                    ELSE movement[e]]
  /\ UNCHANGED stats

\* StatSystem::update: every entity with both a Stats and a Movement.
Update ==
  /\ movement' = [e \in Entities |->
                    IF Has(stats, e) /\ Has(movement, e)
                    THEN <<WriteMovementStats(stats[e][1], movement[e][1])>>
                    ELSE movement[e]]
  /\ UNCHANGED stats

\* The ECS's assign and remove of the two components (scripts, other systems).
AssignStats(e, v) ==
  /\ stats' = [stats EXCEPT ![e] = <<[movementSpeed |-> v]>>]
  /\ UNCHANGED movement

RemoveStats(e) ==
  /\ Has(stats, e)
  /\ stats' = [stats EXCEPT ![e] = None]
  /\ UNCHANGED movement

\* A Movement starts with no speed; only the system gives it one.
AssignMovement(e, f) ==
  /\ movement' = [movement EXCEPT ![e] = <<[movementSpeed |-> 0, facing |-> f]>>]
  /\ UNCHANGED stats

RemoveMovement(e) ==
  /\ Has(movement, e)
  /\ movement' = [movement EXCEPT ![e] = None]
  /\ UNCHANGED stats

(* -------------------------- specifications ---------------------------- *)
\* What the operations of one part leave alone: the other parts.
RBFrame == UNCHANGED <<scale, fixVars, statVars>>
PropsFrame == UNCHANGED <<rbVars, scale, statVars>>
TickFrame == UNCHANGED <<rbVars, scale, fixVars>>

\* The scale the component specifications run with.
RBScale == 3 * One

InitRB ==
  /\ worldToSpawnIn_ = Null
  /\ rb = <<>>
  /\ bodies = <<>>
  /\ disposeList_ = <<>>
  /\ engineCall = NoCall
  /\ crashed = FALSE

InitFixture ==
  /\ fixtureDef = DefaultFixtureDef
  /\ scriptCall = NoCall

InitStats ==
  /\ stats = [e \in Entities |-> None]
  /\ movement = [e \in Entities |-> None]

\* Components come and go in the worlds registered: registration,
\* construction, destruction, instantiate and the flush.
Init == InitRB /\ scale = RBScale /\ InitFixture /\ InitStats

Next ==
  \/ \E w \in Worlds : RegisterFunctions(w) /\ RBFrame
  \/ \E c \in CompIds : Construct(c) /\ RBFrame
  \/ \E c \in CompIds : Destruct(c) /\ RBFrame
  \/ \E c \in CompIds, def \in BodyDefs : InstantiateBody(c, def) /\ RBFrame
  \/ Flush /\ RBFrame

Spec == Init /\ [][Next]_vars

\* The states with one component in the first world, right after its
\* construction or after its first instantiate: its body built from one of defs.
OneComponent(defs) ==
  /\ scale = RBScale /\ InitFixture /\ InitStats
  /\ worldToSpawnIn_ = 1
  /\ \E def \in defs, h \in {1} :
       /\ bodies = [x \in {h} |->
                      [world |-> worldToSpawnIn_, type |-> def.type,
                       position |-> def.position, angle |-> def.angle,
                       linearVelocity |-> def.linearVelocity,
                       awake |-> def.awake, gravityScale |-> One, fixtures |-> 0]]
       /\ rb = [x \in {1} |->
                  [physics_ |-> worldToSpawnIn_, body_ |-> h,
                   previousPosition_ |-> <<0, 0>>, previousAngle_ |-> 0,
                   isOutOfSync_ |-> TRUE]]
  /\ disposeList_ = <<>>
  /\ engineCall = NoCall
  /\ crashed = FALSE

\* One component from its construction on: a script instantiates it again
\* and again, between calls on its body and the owner's flushes.
InitComponent == OneComponent({defaultBodyDefinition_})

ScriptVec == <<3 * One, 5 * One>>

NextComponent ==
  \/ \E c \in CompIds : InstantiateBody(c, DynamicBodyDef) /\ RBFrame
  \/ \E c \in CompIds : AddFixture(c, DefaultFixtureDef) /\ RBFrame
  \/ \E c \in CompIds : WarpTo(c, ScriptVec[1], ScriptVec[2]) /\ RBFrame
  \/ \E c \in CompIds : ApplyImpulseToCentre(c, ScriptVec[1], ScriptVec[2]) /\ RBFrame
  \/ Flush /\ RBFrame

SpecComponent == InitComponent /\ [][NextComponent]_vars

\* One component on a body built from any definition, driven by a script.
InitBody == OneComponent(BodyDefs)

NextBody ==
  \/ \E c \in CompIds : AddFixture(c, DefaultFixtureDef) /\ RBFrame
  \/ \E c \in CompIds : SetGravity(c, 0) /\ RBFrame
  \/ \E c \in CompIds, d \in GameVecs : WarpToVec(c, d) /\ RBFrame
  \/ \E c \in CompIds, d \in GameVecs : WarpTo(c, d[1], d[2]) /\ RBFrame
  \/ \E c \in CompIds, f \in GameVecs : ApplyForceToCentreVec(c, f) /\ RBFrame
  \/ \E c \in CompIds, f \in GameVecs : ApplyForceToCentre(c, f[1], f[2]) /\ RBFrame
  \/ \E c \in CompIds, fp \in ForcePoints : ApplyForceRelVec(c, fp[1], fp[2]) /\ RBFrame
  \/ \E c \in CompIds, fp \in ForcePoints : ApplyForceRel(c, fp[1][1], fp[1][2], fp[2][1], fp[2][2]) /\ RBFrame
  \/ \E c \in CompIds, fp \in ForcePoints : ApplyForceVec(c, fp[1], fp[2]) /\ RBFrame
  \/ \E c \in CompIds, fp \in ForcePoints : ApplyForce(c, fp[1][1], fp[1][2], fp[2][1], fp[2][2]) /\ RBFrame
  \/ \E c \in CompIds, f \in GameVecs : ApplyImpulseToCentreVec(c, f) /\ RBFrame
  \/ \E c \in CompIds, f \in GameVecs : ApplyImpulseToCentre(c, f[1], f[2]) /\ RBFrame
  \/ \E c \in CompIds, fp \in ForcePoints : ApplyImpulseRelVec(c, fp[1], fp[2]) /\ RBFrame
  \/ \E c \in CompIds, fp \in ForcePoints : ApplyImpulseRel(c, fp[1][1], fp[1][2], fp[2][1], fp[2][2]) /\ RBFrame
  \/ \E c \in CompIds, fp \in ForcePoints : ApplyImpulseVec(c, fp[1], fp[2]) /\ RBFrame
  \/ \E c \in CompIds, fp \in ForcePoints : ApplyImpulse(c, fp[1][1], fp[1][2], fp[2][1], fp[2][2]) /\ RBFrame

SpecBody == InitBody /\ [][NextBody]_vars

\* A script reads and writes the properties of one FixtureDef.
InitProps == InitRB /\ scale \in Scales /\ InitFixture /\ InitStats

NextProps ==
  \/ \E prop \in Props : ReadProperty(prop) /\ PropsFrame
  \/ \E prop \in Props, v \in ScriptValues : WriteProperty(prop, v) /\ PropsFrame
  \/ \E prop \in Props : WriteBack(prop) /\ PropsFrame

SpecProps == InitProps /\ [][NextProps]_vars

\* The scheduler's ticks of StatSystem between the ECS's changes.
InitTick == InitRB /\ scale = RBScale /\ InitFixture /\ InitStats

NextTick ==
  \/ Update /\ TickFrame
  \/ \E e \in Entities, v \in StatValues : AssignStats(e, v) /\ TickFrame
  \/ \E e \in Entities : RemoveStats(e) /\ TickFrame
  \/ \E e \in Entities, f \in {"left", "right"} : AssignMovement(e, f) /\ TickFrame
  \/ \E e \in Entities : RemoveMovement(e) /\ TickFrame

SpecTick == InitTick /\ [][NextTick]_vars

(* ------------------------------ claims -------------------------------- *)
\* C1: after construction and after any sequence of instantiate calls,
\* interleaved with addFixture, warpTo and impulse calls and the owner's
\* flushes, the component references one body, and that body is live: created
\* in the component's world, not destroyed and not on the deferred-destroy
\* list; it is the only live body of the world the component references.
C1_OneLiveBody ==
  \A c \in Comps :
    /\ rb[c].body_ \in Live
    /\ ~InList(rb[c].body_)
    /\ bodies[rb[c].body_].world = rb[c].physics_
    /\ Cardinality({h \in Live : h = rb[c].body_ /\ ~InList(h)}) = 1

\* Two bodies replaced and not flushed yet, and the current body instantiated,
\* given a fixture, warped and pushed.
C1_Witness ==
  \E c \in Comps :
    /\ Len(disposeList_) >= 2
    /\ rb[c].body_ \in Live
    /\ bodies[rb[c].body_].type = "dynamic"
    /\ bodies[rb[c].body_].fixtures > 0
    /\ bodies[rb[c].body_].position = ConvertToB2(ScriptVec)
    /\ engineCall # NoCall
    /\ engineCall.body = rb[c].body_

\* C2: instantiate(def) on a component holding body B appends B to the
\* deferred-destroy list and leaves B in the physics world as it was, makes a
\* body newly created from def in the component's world the current body, and
\* leaves isOutOfSync set.
C2_InstantiateDefers ==
  [][\A c \in CompIds, def \in BodyDefs :
       InstantiateBody(c, def) =>
         /\ disposeList_' = Append(disposeList_, rb[c].body_)
         /\ rb[c].body_ \in DOMAIN bodies'
         /\ bodies'[rb[c].body_] = bodies[rb[c].body_]
         /\ rb'[c].body_ \notin Live
         /\ rb'[c].body_ \in DOMAIN bodies'
         /\ bodies'[rb'[c].body_].world = rb[c].physics_
         /\ bodies'[rb'[c].body_].type = def.type
         /\ bodies'[rb'[c].body_].position = def.position
         /\ bodies'[rb'[c].body_].angle = def.angle
         /\ bodies'[rb'[c].body_].linearVelocity = def.linearVelocity
         /\ bodies'[rb'[c].body_].awake = def.awake
         /\ rb'[c].isOutOfSync_ = TRUE]_vars

\* A replaced body waits on the list, still in the world, while its component
\* holds a body built from the dynamic definition.
C2_Witness ==
  \E c \in Comps :
    /\ disposeList_ # <<>>
    /\ disposeList_[Len(disposeList_)] \in Live
    /\ rb[c].body_ \in Live
    /\ bodies[rb[c].body_].type = "dynamic"
    /\ bodies[rb[c].body_].awake = FALSE
    /\ rb[c].isOutOfSync_

\* C7: every body of a world is the current body of an existing component or
\* is on the deferred-destroy list: none is dropped without being scheduled
\* for disposal, also when its component is destroyed.
C7_NoBodyDropped ==
  \A h \in Live : InList(h) \/ \E c \in Comps : rb[c].body_ = h

\* C8: the body handle of a component is non-null, and names a body of the
\* world, in every state between operations, so that no addFixture, warpTo or
\* impulse call dereferences a null body and the replacement guard of
\* instantiate is taken.
C8_BodyNeverNull ==
  /\ ~crashed
  /\ \A c \in Comps : rb[c].body_ # Null /\ rb[c].body_ \in Live

\* The component has been instantiated and its new body used by a call.
C8_Witness ==
  \E c \in Comps :
    /\ disposeList_ # <<>>
    /\ rb[c].body_ # Null
    /\ engineCall # NoCall
    /\ engineCall.body = rb[c].body_
    /\ bodies[rb[c].body_].fixtures > 0

\* C9: a component takes the world registered last as its world when it is
\* constructed, a non-null one; its world never changes; and every body an
\* instantiate gives it is created in that world, whatever world is
\* registered by then.
C9_WorldCaptured ==
  [][/\ \A c \in Comps' \ Comps :
          /\ rb'[c].physics_ = worldToSpawnIn_
          /\ rb'[c].physics_ # Null
          /\ bodies'[rb'[c].body_].world = worldToSpawnIn_
     /\ \A c \in Comps' \cap Comps :
          /\ rb'[c].physics_ = rb[c].physics_
          /\ rb'[c].body_ # rb[c].body_ =>
               bodies'[rb'[c].body_].world = rb[c].physics_]_vars

\* Another world has been registered since the component was constructed, and
\* the component has been instantiated: the replaced body and the new one are
\* both in the component's world.
C9_Witness ==
  \E c \in Comps :
    /\ worldToSpawnIn_ # rb[c].physics_
    /\ bodies[rb[c].body_].type = "kinematic"
    /\ bodies[rb[c].body_].world = rb[c].physics_
    /\ \E i \in 1..Len(disposeList_) :
         /\ disposeList_[i] \in Live
         /\ bodies[disposeList_[i]].world # worldToSpawnIn_

\* C10: the deferred-destroy list holds no body twice, holds only bodies that
\* are still in their world and never the current body of a component, and
\* every instantiate call makes it one entry longer.
C10_ListSound ==
  /\ [](/\ \A i, j \in 1..Len(disposeList_) :
             disposeList_[i] = disposeList_[j] => i = j
        /\ \A i \in 1..Len(disposeList_) :
             /\ disposeList_[i] \in Live
             /\ \A c \in Comps : rb[c].body_ # disposeList_[i])
  /\ [][\A c \in CompIds, def \in BodyDefs :
          InstantiateBody(c, def) => Len(disposeList_') = Len(disposeList_) + 1]_vars

\* Two replaced bodies wait on the list while their component holds a third.
C10_Witness ==
  /\ Len(disposeList_) >= 2
  /\ \E c \in Comps : rb[c].body_ \in Live /\ bodies[rb[c].body_].type # "static"

\* C3: warpTo(x, y) and warpToVec put the body at the destination converted
\* to physics units and zero its linear velocity, and leave its angle as it
\* was, whatever its position and velocity before the call.
C3_WarpTeleports ==
  [][\A c \in Comps, d \in GameVecs :
       (WarpToVec(c, d) \/ WarpTo(c, d[1], d[2])) =>
         /\ bodies'[rb[c].body_].position = <<FDiv(d[1], scale), FDiv(d[2], scale)>>
         /\ bodies'[rb[c].body_].linearVelocity = <<0, 0>>
         /\ bodies'[rb[c].body_].angle = bodies[rb[c].body_].angle]_vars

\* The body that started turned and moving away from the destination has
\* been warped: it is at the destination, at rest, and turned as before.
C3_Witness ==
  \E c \in Comps, d \in GameVecs :
    /\ bodies[rb[c].body_].type = DynamicBodyDef.type
    /\ DynamicBodyDef.linearVelocity # <<0, 0>>
    /\ DynamicBodyDef.position # ConvertToB2(d)
    /\ bodies[rb[c].body_].position = ConvertToB2(d)
    /\ bodies[rb[c].body_].linearVelocity = <<0, 0>>
    /\ bodies[rb[c].body_].angle = DynamicBodyDef.angle
    /\ bodies[rb[c].body_].angle # 0

\* A step of one of the six Vec functions of the force and impulse family on
\* component c.
ForceFamilyStep(c, f, p) ==
  \/ ApplyForceToCentreVec(c, f)
  \/ ApplyForceRelVec(c, f, p)
  \/ ApplyForceVec(c, f, p)
  \/ ApplyImpulseToCentreVec(c, f)
  \/ ApplyImpulseRelVec(c, f, p)
  \/ ApplyImpulseVec(c, f, p)

\* C5: every function of the force and impulse family calls the engine on
\* the component's current body with wake set, so that the body is awake
\* after the call; and a step of a scalar overload is a step of its Vec
\* overload on the vectors built from the same scalars, and the other way,
\* so that what holds of the six Vec functions holds of all twelve.
C5_ForceFamilyWakes ==
  [][\A c \in Comps, fp \in ForcePoints :
      LET f == fp[1]
          p == fp[2]
      IN
       /\ ForceFamilyStep(c, f, p) =>
            /\ engineCall'.wake = TRUE
            /\ engineCall'.body = rb[c].body_
            /\ engineCall'.vec = <<FDiv(f[1], scale), FDiv(f[2], scale)>>
            /\ bodies'[rb[c].body_].awake = TRUE
       /\ ApplyForceToCentre(c, f[1], f[2]) <=> ApplyForceToCentreVec(c, f)
       /\ ApplyForceRel(c, f[1], f[2], p[1], p[2]) <=> ApplyForceRelVec(c, f, p)
       /\ ApplyForce(c, f[1], f[2], p[1], p[2]) <=> ApplyForceVec(c, f, p)
       /\ ApplyImpulseToCentre(c, f[1], f[2]) <=> ApplyImpulseToCentreVec(c, f)
       /\ ApplyImpulseRel(c, f[1], f[2], p[1], p[2]) <=> ApplyImpulseRelVec(c, f, p)
       /\ ApplyImpulse(c, f[1], f[2], p[1], p[2]) <=> ApplyImpulseVec(c, f, p)]_vars

\* The body that started asleep is awake, and the engine's last call is a
\* call on it with wake set.
C5_Witness ==
  \E c \in Comps :
    /\ DynamicBodyDef.awake = FALSE
    /\ bodies[rb[c].body_].type = DynamicBodyDef.type
    /\ bodies[rb[c].body_].awake = TRUE
    /\ engineCall # NoCall
    /\ engineCall.body = rb[c].body_
    /\ engineCall.wake = TRUE

\* C4: a tick of StatSystem leaves every entity that lacks a Stats or lacks a
\* Movement as it was, gives it no component and takes none, and copies the
\* stat into the Movement of the entities that have both, and only of those.
C4_UpdateSkipsIncomplete ==
  [][Update =>
       \A e \in Entities :
         /\ stats'[e] = stats[e]
         /\ Has(movement', e) <=> Has(movement, e)
         /\ ~(Has(stats, e) /\ Has(movement, e)) => movement'[e] = movement[e]
         /\ (Has(stats, e) /\ Has(movement, e)) =>
              /\ movement'[e][1].movementSpeed = stats[e][1].movementSpeed
              /\ movement'[e][1].facing = movement[e][1].facing]_vars

\* A tick has given one entity's Movement its stat, next to an entity with a
\* Stats and no Movement and so left alone.
C4_Witness ==
  \E e, o \in Entities :
    /\ Has(stats, e) /\ Has(movement, e)
    /\ movement[e][1].movementSpeed = stats[e][1].movementSpeed
    /\ movement[e][1].movementSpeed # 0
    /\ Has(stats, o) /\ ~Has(movement, o)

\* No underflow: a float that is zero or has all its mantissa bits.
Normal(x) == x = 0 \/ Abs(x) >= MinNormal

\* r is v but for two roundings: |r - v| <= (2^(1-p) + 2^(-2p)) |v| for a
\* mantissa of p = MantBits bits.
Close(r, v) ==
  Abs(r - v) * Pow2(2 * MantBits) <= (Pow2(MantBits + 1) + 1) * Abs(v)

PowerOfTwo(x) == x > 0 /\ Pow2(BitLen(x) - 1) = x

\* C6, as stated: reading a property right after writing v returns v, and
\* writing the value just read leaves the stored field unchanged.
C6_ExactRoundTrip ==
  /\ []((scriptCall.fn = "get" /\ scriptCall.after # <<>>) =>
          scriptCall.val = scriptCall.after[1])
  /\ [][\A prop \in Props : WriteBack(prop) => fixtureDef' = fixtureDef]_vars

\* C6, amended: the setter stores v / scale and the getter returns
\* stored * scale, each rounded to a float, so that, where nothing underflows,
\* reading a property right after writing v returns v but for the two
\* roundings, and v itself when the scale is a power of two; and writing the
\* value just read changes the stored field by no more than the two roundings.
C6_RoundTripWithinRounding ==
  /\ [](\A prop \in Props :
          (/\ scriptCall.fn = "get" /\ scriptCall.prop = prop
           /\ scriptCall.after # <<>>
           /\ scriptCall.after[1] # 0 => Abs(fixtureDef[prop]) >= MinNormal
           /\ Normal(scriptCall.val)) =>
            /\ fixtureDef[prop] = FDiv(scriptCall.after[1], scale)
            /\ scriptCall.val = FMul(fixtureDef[prop], scale)
            /\ Close(scriptCall.val, scriptCall.after[1])
            /\ PowerOfTwo(scale) => scriptCall.val = scriptCall.after[1])
  /\ [][\A prop \in Props :
          (/\ WriteBack(prop)
           /\ Abs(fixtureDef[prop]) >= MinNormal
           /\ Abs(scriptCall.val) >= MinNormal
           /\ Abs(fixtureDef'[prop]) >= MinNormal) =>
            /\ Close(fixtureDef'[prop], fixtureDef[prop])
            /\ \A other \in Props \ {prop} : fixtureDef'[other] = fixtureDef[other]]_vars

\* A script wrote a value and read back another one, with all mantissa bits
\* in use throughout.
C6_Witness ==
  /\ scriptCall.fn = "get"
  /\ scriptCall.after # <<>>
  /\ scriptCall.after[1] # 0
  /\ Abs(fixtureDef[scriptCall.prop]) >= MinNormal
  /\ Normal(scriptCall.val)
  /\ scriptCall.val # scriptCall.after[1]
  /\ Close(scriptCall.val, scriptCall.after[1])

====
